---- MODULE Spec2Model ----
(***************************************************************************)
(* SignalZero symbol store MCP server (src/symbol_store_server.py).        *)
(*                                                                         *)
(* JSON values are tagged records, texts are strings.  The dispatcher      *)
(* call_tool is modelled per invocation (task), split at the points where  *)
(* the coroutine is suspended: the HTTP round trip and the release of the  *)
(* transport.                                                              *)
(***************************************************************************)
EXTENDS Integers, Sequences, FiniteSets, TLC

(***************************************************************************)
(* Bounds of the model.                                                    *)
(***************************************************************************)
NumTasks == 2
MaxCalls == 2

(***************************************************************************)
(* JSON values (Python objects as json.loads / the MCP transport gives     *)
(* them).  An object keeps its members in insertion order.                 *)
(***************************************************************************)
JNull == [t |-> "null"]
JBool(b) == [t |-> "bool", b |-> b]
JInt(n) == [t |-> "int", n |-> n]
JStr(s) == [t |-> "str", s |-> s]
JArr(items) == [t |-> "arr", items |-> items]
JObj(members) == [t |-> "obj", members |-> members]
Member(k, v) == [k |-> k, v |-> v]

RECURSIVE Spaces(_)
Spaces(n) == IF n <= 0 THEN "" ELSE " " \o Spaces(n - 1)

\* json encoder's string escaping with ensure_ascii=False: only the quote,
\* the backslash and control characters are escaped.
EscapeChar(c) ==
    CASE c = "\"" -> "\\\""
      [] c = "\\" -> "\\\\"
      [] c = "\n" -> "\\n"
      [] OTHER -> c

RECURSIVE Escape(_)
Escape(s) ==
    IF Len(s) = 0 THEN ""
    ELSE EscapeChar(SubSeq(s, 1, 1)) \o Escape(SubSeq(s, 2, Len(s)))

Quote(s) == "\"" \o Escape(s) \o "\""

\* json.dumps(payload, indent=2, ensure_ascii=False) at nesting depth `level`.
RECURSIVE DumpsAt(_, _)
RECURSIVE DumpItems(_, _)
RECURSIVE DumpMembers(_, _)
DumpItems(items, level) ==
    IF Len(items) = 0 THEN ""
    ELSE Spaces(2 * level) \o DumpsAt(Head(items), level)
         \o (IF Len(items) = 1 THEN "" ELSE ",\n" \o DumpItems(Tail(items), level))

DumpMembers(members, level) ==
    IF Len(members) = 0 THEN ""
    ELSE Spaces(2 * level) \o Quote(Head(members).k) \o ": "
         \o DumpsAt(Head(members).v, level)
         \o (IF Len(members) = 1 THEN "" ELSE ",\n" \o DumpMembers(Tail(members), level))

DumpsAt(v, level) ==
    CASE v.t = "null" -> "null"
      [] v.t = "bool" -> IF v.b THEN "true" ELSE "false"
      [] v.t = "int" -> ToString(v.n)
      [] v.t = "str" -> Quote(v.s)
      [] v.t = "arr" ->
            IF Len(v.items) = 0 THEN "[]"
            ELSE "[\n" \o DumpItems(v.items, level + 1) \o "\n" \o Spaces(2 * level) \o "]"
      [] v.t = "obj" ->
            IF Len(v.members) = 0 THEN "{}"
            ELSE "{\n" \o DumpMembers(v.members, level + 1) \o "\n" \o Spaces(2 * level) \o "}"

\* json.dumps(value): one line, ", " and ": " as separators.
RECURSIVE WireJson(_)
RECURSIVE WireItems(_)
RECURSIVE WireMembers(_)
WireItems(items) ==
    IF Len(items) = 0 THEN ""
    ELSE WireJson(Head(items))
         \o (IF Len(items) = 1 THEN "" ELSE ", " \o WireItems(Tail(items)))

WireMembers(members) ==
    IF Len(members) = 0 THEN ""
    ELSE Quote(Head(members).k) \o ": " \o WireJson(Head(members).v)
         \o (IF Len(members) = 1 THEN "" ELSE ", " \o WireMembers(Tail(members)))

WireJson(v) ==
    CASE v.t = "null" -> "null"
      [] v.t = "bool" -> IF v.b THEN "true" ELSE "false"
      [] v.t = "int" -> ToString(v.n)
      [] v.t = "str" -> Quote(v.s)
      [] v.t = "arr" -> "[" \o WireItems(v.items) \o "]"
      [] v.t = "obj" -> "{" \o WireMembers(v.members) \o "}"

\* A formatter that forgets indent=2.
format_json_payload_oneline(payload) == WireJson(payload)

format_json_payload(payload) == DumpsAt(payload, 0)

\* An emptiness test that knows only sequences and mappings.
Truthy_ContainersOnly(v) ==
    CASE v.t = "arr" -> Len(v.items) > 0
      [] v.t = "obj" -> Len(v.members) > 0
      [] OTHER -> TRUE

\* Python truthiness of a JSON value (`if data`).
Truthy(v) ==
    CASE v.t = "null" -> FALSE
      [] v.t = "bool" -> v.b
      [] v.t = "int" -> v.n # 0
      [] v.t = "str" -> Len(v.s) > 0
      [] v.t = "arr" -> Len(v.items) > 0
      [] v.t = "obj" -> Len(v.members) > 0

\* str(value) as an f-string or a query parameter renders it.
PyStr(v) ==
    CASE v.t = "str" -> v.s
      [] v.t = "int" -> ToString(v.n)
      [] v.t = "bool" -> IF v.b THEN "True" ELSE "False"
      [] v.t = "null" -> "None"


(***************************************************************************)
(* Python dicts are functions from string keys; {} is the empty function.  *)
(***************************************************************************)
EmptyDict == [k \in {} |-> JNull]
HasKey(d, k) == k \in DOMAIN d
\* dict.get(key): None when the key is absent.
DictGet(d, k) == IF HasKey(d, k) THEN d[k] ELSE JNull

(***************************************************************************)
(* Module constants.                                                       *)
(***************************************************************************)
DEFAULT_BASE_URL == "https://qnw96whs57.execute-api.us-west-2.amazonaws.com/prod"
DefaultTimeout == 10

\* str.rstrip("/")
RECURSIVE RStripSlash(_)
RStripSlash(s) ==
    IF Len(s) > 0 /\ SubSeq(s, Len(s), Len(s)) = "/"
    THEN RStripSlash(SubSeq(s, 1, Len(s) - 1))
    ELSE s

\* os.getenv(key, default): the environment maps names to plain strings.
GetEnv(env, key, default) == IF HasKey(env, key) THEN env[key] ELSE default

\* SymbolStoreClient.__init__
SymbolStoreClient(base_url, api_key) ==
    [base_url |-> RStripSlash(base_url),
     headers |-> IF api_key # ""
                 THEN ("Accept" :> "application/json") @@ ("x-api-key" :> api_key)
                 ELSE ("Accept" :> "application/json"),
     timeout |-> DefaultTimeout]

\* build_client(): a missing SYMBOL_STORE_API_KEY is None, which `if api_key`
\* treats like the empty string.
build_client(env) ==
    SymbolStoreClient(GetEnv(env, "SYMBOL_STORE_BASE_URL", DEFAULT_BASE_URL),
                      GetEnv(env, "SYMBOL_STORE_API_KEY", ""))

(***************************************************************************)
(* The client's four operations, up to the call of _request: each gives    *)
(* the method, the path and the keyword arguments handed to _request.      *)
(***************************************************************************)
OptionalFields == <<"symbol_domain", "symbol_tag", "last_symbol_id", "limit">>

Call(method, path, kwargs) == [method |-> method, path |-> path, kwargs |-> kwargs]

\* A comprehension without its `if value is not None`.
QueryParams_All(given) == given

\* SymbolStoreClient.query_symbols: the dict comprehension drops the None values.
QueryParams(given) ==
    [k \in {f \in DOMAIN given : given[f] # JNull} |-> given[k]]

client_query_symbols(symbol_domain, symbol_tag, last_symbol_id, limit) ==
    Call("GET", "/symbol",
         [params |-> QueryParams([symbol_domain |-> symbol_domain,
                                  symbol_tag |-> symbol_tag,
                                  last_symbol_id |-> last_symbol_id,
                                  limit |-> limit])])

client_get_symbol(symbol_id) == Call("GET", "/symbol/" \o PyStr(symbol_id), EmptyDict)

client_put_symbol(symbol_id, payload) ==
    Call("PUT", "/save_symbol/" \o PyStr(symbol_id), [json |-> payload])

client_list_domains == Call("GET", "/domains", EmptyDict)

\* The query string httpx builds from params, in the dict's insertion order;
\* empty params give no query at all.
RECURSIVE QueryString(_, _)
QueryString(params, fields) ==
    IF Len(fields) = 0 THEN ""
    ELSE LET k == Head(fields)
             rest == QueryString(params, Tail(fields))
         IN IF ~HasKey(params, k) THEN rest
            ELSE k \o "=" \o PyStr(params[k]) \o (IF rest = "" THEN "" ELSE "&" \o rest)

RequestUrl(client, call) ==
    LET q == IF HasKey(call.kwargs, "params")
             THEN QueryString(call.kwargs["params"], OptionalFields) ELSE ""
    IN client.base_url \o call.path \o (IF q = "" THEN "" ELSE "?" \o q)

\* The request client.request(method, path, **kwargs) puts on the wire.
BuildRequest(client, call, transport) ==
    [method |-> call.method, path |-> call.path, url |-> RequestUrl(client, call),
     headers |-> client.headers, timeout |-> client.timeout,
     kwargs |-> call.kwargs, transport |-> transport]

(***************************************************************************)
(* call_tool up to its first suspension: the branch on the tool name and   *)
(* the argument lookups.  A plan is the client call to make, the text of   *)
(* the else branch, or the KeyError of a failed arguments[...] lookup.     *)
(***************************************************************************)
PlanCall(call) == [kind |-> "call", call |-> call]
PlanText(text) == [kind |-> "text", text |-> text]
PlanRaise(exc, key) == [kind |-> "raise", exc |-> exc, key |-> key]

\* A dispatcher whose last branch is list_domains rather than the else.
Dispatch_DefaultList(name, arguments) ==
    CASE name = "query_symbols" ->
            PlanCall(client_query_symbols(DictGet(arguments, "symbol_domain"),
                                          DictGet(arguments, "symbol_tag"),
                                          DictGet(arguments, "last_symbol_id"),
                                          DictGet(arguments, "limit")))
      [] name = "get_symbol_by_id" ->
            IF ~HasKey(arguments, "id") THEN PlanRaise("KeyError", "id")
            ELSE PlanCall(client_get_symbol(arguments["id"]))
      [] name = "put_symbol_by_id" ->
            IF ~HasKey(arguments, "symbol_id") THEN PlanRaise("KeyError", "symbol_id")
            ELSE IF ~HasKey(arguments, "symbol") THEN PlanRaise("KeyError", "symbol")
            ELSE PlanCall(client_put_symbol(arguments["symbol_id"], arguments["symbol"]))
      [] OTHER -> PlanCall(client_list_domains)

\* A dispatcher that reads the required arguments with arguments.get(...).
Dispatch_GetOptional(name, arguments) ==
    CASE name = "query_symbols" ->
            PlanCall(client_query_symbols(DictGet(arguments, "symbol_domain"),
                                          DictGet(arguments, "symbol_tag"),
                                          DictGet(arguments, "last_symbol_id"),
                                          DictGet(arguments, "limit")))
      [] name = "get_symbol_by_id" ->
            PlanCall(client_get_symbol(DictGet(arguments, "id")))
      [] name = "put_symbol_by_id" ->
            PlanCall(client_put_symbol(DictGet(arguments, "symbol_id"),
                                       DictGet(arguments, "symbol")))
      [] name = "list_domains" -> PlanCall(client_list_domains)
      [] OTHER -> PlanText("Unknown tool: " \o name)

Dispatch(name, arguments) ==
    CASE name = "query_symbols" ->
            PlanCall(client_query_symbols(DictGet(arguments, "symbol_domain"),
                                          DictGet(arguments, "symbol_tag"),
                                          DictGet(arguments, "last_symbol_id"),
                                          DictGet(arguments, "limit")))
      [] name = "get_symbol_by_id" ->
            IF ~HasKey(arguments, "id") THEN PlanRaise("KeyError", "id")
            ELSE PlanCall(client_get_symbol(arguments["id"]))
      [] name = "put_symbol_by_id" ->
            IF ~HasKey(arguments, "symbol_id") THEN PlanRaise("KeyError", "symbol_id")
            ELSE IF ~HasKey(arguments, "symbol") THEN PlanRaise("KeyError", "symbol")
            ELSE PlanCall(client_put_symbol(arguments["symbol_id"], arguments["symbol"]))
      [] name = "list_domains" -> PlanCall(client_list_domains)
      [] OTHER -> PlanText("Unknown tool: " \o name)

(***************************************************************************)
(* The remote service's answers.  A body is text; the service encodes a    *)
(* JSON value the way json.dumps does by default (WireJson).               *)
(***************************************************************************)
SymbolOne == JObj(<<Member("id", JStr("1")), Member("domain", JStr("test"))>>)
StoredReply == JObj(<<Member("status", JStr("stored")), Member("note", JStr("say \"hi\""))>>)

\* The JSON values the remote service may answer with.
JsonPayloads ==
    {JArr(<<>>), JObj(<<>>), JNull, JInt(0), JBool(FALSE), JStr(""),
     JArr(<<JStr("alpha"), JStr("beta")>>), JArr(<<SymbolOne>>), StoredReply, JInt(7)}

\* Bodies that are no JSON document.
NonJsonBodies == {"", "not found"}
ErrorBodies == {"", "not found", "{\"message\": \"Forbidden\"}"}

SuccessStatuses == {200}
ErrorStatuses == {404, 503}

HttpResponse(status, body) == [kind |-> "http", status |-> status, text |-> body]
NetworkError(exc) == [kind |-> "neterr", exc |-> exc]

Responses ==
    {HttpResponse(st, WireJson(v)) : st \in SuccessStatuses, v \in JsonPayloads}
    \cup {HttpResponse(st, b) : st \in SuccessStatuses, b \in NonJsonBodies}
    \cup {HttpResponse(st, b) : st \in ErrorStatuses, b \in ErrorBodies}
    \cup {NetworkError("ConnectError"), NetworkError("ReadTimeout")}

\* Response.is_success
IsSuccess(status) == 200 <= status /\ status <= 299

\* Response.json(): the value whose encoding the body is, or a decode error.
response_json(response) ==
    IF \E v \in JsonPayloads : WireJson(v) = response.text
    THEN [ok |-> TRUE, value |-> CHOOSE v \in JsonPayloads : WireJson(v) = response.text]
    ELSE [ok |-> FALSE, exc |-> "JSONDecodeError"]

(***************************************************************************)
(* call_tool after the round trip.                                         *)
(***************************************************************************)
TextContent(text) == [type |-> "text", text |-> text]
Returned(text) == [kind |-> "returned", content |-> <<TextContent(text)>>]
Raised(exc) == [kind |-> "raised", exc |-> exc]

\* The text of each branch of call_tool, given the client's result.
SuccessText(name, arguments, data) ==
    CASE name = "query_symbols" ->
            (IF Truthy(data) THEN "Query results" ELSE "No symbols returned")
            \o ":\n" \o format_json_payload(data)
      [] name = "get_symbol_by_id" -> format_json_payload(data)
      [] name = "put_symbol_by_id" ->
            "Stored symbol " \o PyStr(arguments["symbol_id"]) \o ":\n"
            \o format_json_payload(data)
      [] name = "list_domains" -> "Available domains:\n" \o format_json_payload(data)

\* The except httpx.HTTPStatusError clause.
StatusErrorText(request, response) ==
    "Request to " \o request.method \o " " \o request.url \o " failed with status "
    \o ToString(response.status) \o ": " \o response.text

\* call_tool without its except clause: the status error leaves the handler.
Resume_NoExcept(name, arguments, request, response) ==
    IF response.kind = "neterr" THEN Raised(response.exc)
    ELSE IF ~IsSuccess(response.status) THEN Raised("HTTPStatusError")
    ELSE LET decoded == response_json(response)
         IN IF ~decoded.ok THEN Raised(decoded.exc)
            ELSE Returned(SuccessText(name, arguments, decoded.value))

\* From the end of the `async with` block to the end of call_tool:
\* a network error propagates; raise_for_status raises on a non-2xx status and
\* the except clause turns that into text; otherwise response.json() and the
\* branch's formatting.
Resume(name, arguments, request, response) ==
    IF response.kind = "neterr" THEN Raised(response.exc)
    ELSE IF ~IsSuccess(response.status) THEN Returned(StatusErrorText(request, response))
    ELSE LET decoded == response_json(response)
         IN IF ~decoded.ok THEN Raised(decoded.exc)
            ELSE Returned(SuccessText(name, arguments, decoded.value))

(***************************************************************************)
(* Inputs of the model.                                                    *)
(***************************************************************************)
ToolNames == {"query_symbols", "get_symbol_by_id", "put_symbol_by_id", "list_domains"}
Names == ToolNames \cup {"foo", "get_symbol"}

FieldValue ==
    [symbol_domain |-> JStr("test"), symbol_tag |-> JStr("core"),
     last_symbol_id |-> JStr("s1"), limit |-> JInt(0)]

\* Every way of leaving out, nulling or giving each optional field.
QueryArguments ==
    {[k \in {f \in DOMAIN g : g[f] # "absent"} |->
        IF g[k] = "null" THEN JNull ELSE FieldValue[k]] :
     g \in [DOMAIN FieldValue -> {"absent", "null", "given"}]}

SymbolBody == JObj(<<Member("id", JStr("s1")), Member("symbol_domain", JStr("test"))>>)

OtherArguments ==
    {("id" :> JStr("s1")),
     ("id" :> JStr("a/b")),
     ("symbol_id" :> JStr("s1")),
     ("symbol" :> SymbolBody),
     ("symbol_id" :> JStr("s1")) @@ ("symbol" :> SymbolBody),
     ("symbol_id" :> JStr("s2")) @@ ("symbol" :> JObj(<<>>)) @@ ("id" :> JStr("s1"))}

Arguments == QueryArguments \cup OtherArguments

Environments ==
    {EmptyDict,
     ("SYMBOL_STORE_BASE_URL" :> "http://example.com/") @@ ("SYMBOL_STORE_API_KEY" :> "k1")}

Tasks == 1 .. NumTasks


(***************************************************************************)
(* build_tools_from_spec.  The interface description is a dict of dicts   *)
(* as yaml.safe_load gives it; a subscript of a missing key raises         *)
(* KeyError, and the list is built front to back.                          *)
(***************************************************************************)
Found(value) == [ok |-> TRUE, value |-> value]
KeyError(key) == [ok |-> FALSE, exc |-> "KeyError", key |-> key]

\* The summary read with a subscript: spec["paths"][path][method]["summary"].
Description_Subscript(spec, path, method, default) ==
    IF ~HasKey(spec, "paths") THEN KeyError("paths")
    ELSE IF ~HasKey(spec["paths"], path) THEN KeyError(path)
    ELSE IF ~HasKey(spec["paths"][path], method) THEN KeyError(method)
    ELSE IF ~HasKey(spec["paths"][path][method], "summary") THEN KeyError("summary")
    ELSE Found(spec["paths"][path][method]["summary"])

\* spec["paths"][path][method].get("summary", default)
Description(spec, path, method, default) ==
    IF ~HasKey(spec, "paths") THEN KeyError("paths")
    ELSE IF ~HasKey(spec["paths"], path) THEN KeyError(path)
    ELSE IF ~HasKey(spec["paths"][path], method) THEN KeyError(method)
    ELSE LET operation == spec["paths"][path][method]
         IN Found(IF HasKey(operation, "summary") THEN operation["summary"]
                  ELSE JStr(default))

\* spec["components"]["schemas"]["Symbol"]
SymbolSchema(spec) ==
    IF ~HasKey(spec, "components") THEN KeyError("components")
    ELSE IF ~HasKey(spec["components"], "schemas") THEN KeyError("schemas")
    ELSE IF ~HasKey(spec["components"]["schemas"], "Symbol") THEN KeyError("Symbol")
    ELSE Found(spec["components"]["schemas"]["Symbol"])

Property(type, description) == [type |-> type, description |-> description]
Tool(name, description, inputSchema) ==
    [name |-> name, description |-> description, inputSchema |-> inputSchema]

QuerySchema ==
    [type |-> "object",
     properties |-> [symbol_domain |-> Property("string", "Filter by domain"),
                     symbol_tag |-> Property("string", "Filter by tag"),
                     last_symbol_id |-> Property("string", "Start after ID"),
                     limit |-> Property("integer", "Maximum results")]]
GetSchema ==
    [type |-> "object",
     properties |-> [id |-> Property("string", "Symbol identifier")],
     required |-> <<"id">>]
PutSchema(symbol) ==
    [type |-> "object",
     properties |-> [symbol_id |-> Property("string", "Symbol identifier"),
                     symbol |-> symbol],
     required |-> <<"symbol_id", "symbol">>]
ListSchema == [type |-> "object", properties |-> EmptyDict]

Built(tools) == [kind |-> "returned", tools |-> tools]

build_tools_from_spec(spec) ==
    LET d1 == Description(spec, "/symbol", "get", "Query symbols")
        d2 == Description(spec, "/symbol/{id}", "get", "Get symbol by ID")
        d3 == Description(spec, "/save_symbol/{symbol_id}", "put", "Save symbol")
        sy == SymbolSchema(spec)
        d4 == Description(spec, "/domains", "get", "List symbol domains")
    IN IF ~d1.ok THEN Raised(d1.exc)
       ELSE IF ~d2.ok THEN Raised(d2.exc)
       ELSE IF ~d3.ok THEN Raised(d3.exc)
       ELSE IF ~sy.ok THEN Raised(sy.exc)
       ELSE IF ~d4.ok THEN Raised(d4.exc)
       ELSE Built(<<Tool("query_symbols", d1.value, QuerySchema),
                    Tool("get_symbol_by_id", d2.value, GetSchema),
                    Tool("put_symbol_by_id", d3.value, PutSchema(sy.value)),
                    Tool("list_domains", d4.value, ListSchema)>>)

(***************************************************************************)
(* Interface descriptions the loader may hand over: each required path is  *)
(* missing, present without its operation, or present with the operation   *)
(* with or without a summary; the Symbol schema is present or some level   *)
(* of it is missing; other keys come and go.                               *)
(***************************************************************************)
RequiredMethod ==
    ("/symbol" :> "get") @@ ("/symbol/{id}" :> "get")
    @@ ("/save_symbol/{symbol_id}" :> "put") @@ ("/domains" :> "get")
RequiredPaths == DOMAIN RequiredMethod

PathShapes == {"nopath", "nooperation", "nosummary", "summary"}
ComponentShapes == {"nocomponents", "noschemas", "nosymbol", "symbol"}

OperationOf(path, shape) ==
    IF shape = "summary" THEN [summary |-> JStr("About " \o path), operationId |-> JStr("op")]
    ELSE [operationId |-> JStr("op")]

PathItemOf(path, shape) ==
    IF shape = "nooperation" THEN [parameters |-> JArr(<<>>)]
    ELSE (RequiredMethod[path] :> OperationOf(path, shape))

SymbolSchemaDoc == JObj(<<Member("type", JStr("object"))>>)

ComponentsOf(shape) ==
    CASE shape = "noschemas" -> [parameters |-> EmptyDict]
      [] shape = "nosymbol" -> [schemas |-> [Other |-> JObj(<<>>)]]
      [] shape = "symbol" -> [schemas |-> [Symbol |-> SymbolSchemaDoc]]

SpecDoc(shapes, components, extra) ==
    LET paths == [p \in {q \in RequiredPaths : shapes[q] # "nopath"} |->
                    PathItemOf(p, shapes[p])]
        allPaths == IF extra THEN paths @@ ("/health" :> [get |-> [operationId |-> JStr("h")]])
                    ELSE paths
        base == IF extra THEN [paths |-> allPaths, openapi |-> JStr("3.0.0")]
                ELSE [paths |-> allPaths]
    IN IF components = "nocomponents" THEN base
       ELSE base @@ [components |-> ComponentsOf(components)]

SpecDocs ==
    {SpecDoc(shapes, components, extra) :
        shapes \in [RequiredPaths -> PathShapes],
        components \in ComponentShapes,
        extra \in BOOLEAN}
    \cup {[openapi |-> JStr("3.0.0")]}

(***************************************************************************)
(* State.                                                                  *)
(*   environ   the process environment                                     *)
(*   task      the call_tool invocation of each task: the coroutine's      *)
(*             position and locals                                         *)
(*   open      the transports (httpx.AsyncClient instances) now open       *)
(*   closed    the transports that were closed                             *)
(*   created   how many transports were constructed so far                 *)
(*   calls     how many invocations were started so far                    *)
(*   spec_cache, catalog   the loaded interface description and the last   *)
(*             answer of list_tools                                        *)
(***************************************************************************)
VARIABLES environ, task, open, closed, created, calls, spec_cache, catalog

vars == <<environ, task, open, closed, created, calls, spec_cache, catalog>>

NoTransport == 0
NoValue == [kind |-> "none"]

IdleTask ==
    [pc |-> "idle", name |-> "", arguments |-> EmptyDict, transport |-> NoTransport,
     request |-> NoValue, response |-> NoValue, outcome |-> NoValue, sent |-> <<>>]

\* httpx.AsyncClient(...): a new object on every call of _request.
NewTransport(n) == n + 1

\* A client made without `async with`: nothing closes it.
CloseTransport_Leak(opened, transport) == opened

\* __aexit__ of the `async with` block closes the transport of this call.
CloseTransport(opened, transport) == opened \ {transport}

\* call_tool from its start to its first suspension: build_client, the branch
\* and lookups, and in _request the new transport and the request on the wire.
CallTool(i, name, arguments) ==
    /\ task[i].pc = "idle"
    /\ calls < MaxCalls
    /\ calls' = calls + 1
    /\ LET client == build_client(environ)
           plan == Dispatch(name, arguments)
           started == [IdleTask EXCEPT !.name = name, !.arguments = arguments]
       IN CASE plan.kind = "call" ->
                 LET transport == NewTransport(created)
                     request == BuildRequest(client, plan.call, transport)
                 IN /\ created' = created + 1
                    /\ open' = open \cup {transport}
                    /\ task' = [task EXCEPT ![i] =
                                  [started EXCEPT !.pc = "awaiting",
                                                  !.transport = transport,
                                                  !.request = request,
                                                  !.sent = <<request>>]]
            [] plan.kind = "text" ->
                 /\ task' = [task EXCEPT ![i] =
                               [started EXCEPT !.pc = "done",
                                               !.outcome = Returned(plan.text)]]
                 /\ UNCHANGED <<open, created>>
            [] plan.kind = "raise" ->
                 /\ task' = [task EXCEPT ![i] =
                               [started EXCEPT !.pc = "done",
                                               !.outcome = Raised(plan.exc)]]
                 /\ UNCHANGED <<open, created>>
    /\ UNCHANGED <<environ, closed, spec_cache, catalog>>

\* A round trip that sends the request once more after a failure.
Respond_Retry(i, response) ==
    /\ task[i].pc = "awaiting"
    /\ IF Len(task[i].sent) < 2
          /\ (response.kind = "neterr" \/ ~IsSuccess(response.status))
       THEN task' = [task EXCEPT ![i].sent = Append(@, task[i].request)]
       ELSE task' = [task EXCEPT ![i].pc = "received", ![i].response = response]
    /\ UNCHANGED <<environ, open, closed, created, calls, spec_cache, catalog>>

\* `await client.request(...)` ends: the service answered, or the network failed.
Respond(i, response) ==
    /\ task[i].pc = "awaiting"
    /\ task' = [task EXCEPT ![i].pc = "received", ![i].response = response]
    /\ UNCHANGED <<environ, open, closed, created, calls, spec_cache, catalog>>

\* The `async with` block is left, with the response or with the exception.
ExitClient(i) ==
    /\ task[i].pc = "received"
    /\ open' = CloseTransport(open, task[i].transport)
    /\ closed' = closed \cup (open \ open')
    /\ task' = [task EXCEPT ![i].pc = "released"]
    /\ UNCHANGED <<environ, created, calls, spec_cache, catalog>>

\* raise_for_status, response.json(), the formatting and the except clause.
Finish(i) ==
    /\ task[i].pc = "released"
    /\ task' = [task EXCEPT
                  ![i].pc = "done",
                  ![i].outcome = Resume(task[i].name, task[i].arguments,
                                        task[i].request, task[i].response)]
    /\ UNCHANGED <<environ, open, closed, created, calls, spec_cache, catalog>>

\* The host takes the result (or the failure); the coroutine's frame is gone.
Return(i) ==
    /\ task[i].pc = "done"
    /\ task' = [task EXCEPT ![i] = IdleTask]
    /\ UNCHANGED <<environ, open, closed, created, calls, spec_cache, catalog>>

NoCatalog == [kind |-> "none"]
\* The description the process has loaded when it serves invocations.
DefaultSpec == SpecDoc([p \in RequiredPaths |-> "summary"], "symbol", FALSE)

Init ==
    /\ environ \in Environments
    /\ task = [i \in Tasks |-> IdleTask]
    /\ open = {}
    /\ closed = {}
    /\ created = 0
    /\ calls = 0
    /\ spec_cache = DefaultSpec
    /\ catalog = NoCatalog

\* The host's loop handles one request at a time, in the order received.
HostTask == 1

Next ==
    \/ \E name \in Names, arguments \in Arguments : CallTool(HostTask, name, arguments)
    \/ \E response \in Responses : Respond(HostTask, response)
    \/ ExitClient(HostTask)
    \/ Finish(HostTask)
    \/ Return(HostTask)

Spec == Init /\ [][Next]_vars

(***************************************************************************)
(* Invocations on concurrent tasks, over fewer inputs.                     *)
(***************************************************************************)
ConcInputs ==
    {<<"list_domains", EmptyDict>>,
     <<"query_symbols", ("symbol_domain" :> JStr("test")) @@ ("limit" :> JNull)>>,
     <<"get_symbol_by_id", ("id" :> JStr("s1"))>>,
     <<"put_symbol_by_id", ("symbol_id" :> JStr("s1")) @@ ("symbol" :> SymbolBody)>>,
     <<"get_symbol_by_id", EmptyDict>>,
     <<"foo", EmptyDict>>}

ConcResponses ==
    {HttpResponse(200, "[\"alpha\", \"beta\"]"),
     HttpResponse(404, "not found"), NetworkError("ReadTimeout")}

InitConc == Init /\ environ = EmptyDict

NextConc ==
    \E i \in Tasks :
        \/ \E input \in ConcInputs : CallTool(i, input[1], input[2])
        \/ \E response \in ConcResponses : Respond(i, response)
        \/ ExitClient(i)
        \/ Finish(i)
        \/ Return(i)

SpecConc == InitConc /\ [][NextConc]_vars

(***************************************************************************)
(* The tool catalog: list_tools over whatever load_spec returned.          *)
(***************************************************************************)
\* list_tools(): build_tools_from_spec(spec_cache)
ListTools ==
    /\ catalog = NoCatalog
    /\ catalog' = build_tools_from_spec(spec_cache)
    /\ UNCHANGED <<environ, task, open, closed, created, calls, spec_cache>>

InitCatalog ==
    /\ environ = EmptyDict
    /\ task = [i \in Tasks |-> IdleTask]
    /\ open = {}
    /\ closed = {}
    /\ created = 0
    /\ calls = 0
    /\ spec_cache \in SpecDocs
    /\ catalog = NoCatalog

NextCatalog == ListTools

SpecCatalog == InitCatalog /\ [][NextCatalog]_vars

(***************************************************************************)
(* Properties.  What the text of a payload must be is written out here,    *)
(* body by body, as Python's json.dumps(value, indent=2,                   *)
(* ensure_ascii=False) prints the value each body encodes.                 *)
(***************************************************************************)
ExpectedPretty ==
    ("[]" :> "[]")
    @@ ("{}" :> "{}")
    @@ ("null" :> "null")
    @@ ("0" :> "0")
    @@ ("false" :> "false")
    @@ ("\"\"" :> "\"\"")
    @@ ("[\"alpha\", \"beta\"]" :> "[\n  \"alpha\",\n  \"beta\"\n]")
    @@ ("[{\"id\": \"1\", \"domain\": \"test\"}]" :> "[\n  {\n    \"id\": \"1\",\n    \"domain\": \"test\"\n  }\n]")
    @@ ("{\"status\": \"stored\", \"note\": \"say \\\"hi\\\"\"}" :> "{\n  \"status\": \"stored\",\n  \"note\": \"say \\\"hi\\\"\"\n}")
    @@ ("7" :> "7")

FalsyBodies == {"[]", "{}", "null", "0", "false", "\"\""}

\* C1: whatever the tool, when the round trip ends with a non-2xx status the
\* invocation returns one text item, "Request to <METHOD> <URL> failed with
\* status <CODE>: <body>", made of the method and URL of the request that was
\* sent and the status and body of the response, and nothing else.
C1_StatusErrorBecomesText ==
    \A i \in Tasks :
        LET t == task[i] IN
        (t.pc = "done" /\ t.response.kind = "http"
            /\ ~(t.response.status \in 200 .. 299))
        => /\ Len(t.sent) = 1
           /\ t.outcome =
                [kind |-> "returned",
                 content |-> <<[type |-> "text",
                                text |-> "Request to " \o t.sent[1].method \o " "
                                         \o t.sent[1].url \o " failed with status "
                                         \o ToString(t.response.status) \o ": "
                                         \o t.response.text]>>]
           /\ (t.name = "list_domains" /\ environ = EmptyDict
                 /\ t.response.status = 404 /\ t.response.text = "not found")
              => t.outcome.content[1].text =
                    "Request to GET https://qnw96whs57.execute-api.us-west-2.amazonaws.com/prod/domains failed with status 404: not found"

C1_Witness ==
    \E i \in Tasks :
        /\ task[i].pc = "done"
        /\ task[i].name = "put_symbol_by_id"
        /\ task[i].response.kind = "http"
        /\ task[i].response.status = 503
        /\ task[i].response.text = "{\"message\": \"Forbidden\"}"
        /\ task[i].outcome.kind = "returned"

\* C2: a name that is none of the four tools gives, whatever the arguments,
\* a normal return of the one text "Unknown tool: <name>", and the invocation
\* makes no transport and sends no request.
C2_UnknownToolIsText ==
    \A i \in Tasks :
        LET t == task[i] IN
        (t.pc # "idle"
            /\ t.name \notin {"query_symbols", "get_symbol_by_id",
                              "put_symbol_by_id", "list_domains"})
        => /\ t.pc = "done"
           /\ t.outcome =
                [kind |-> "returned",
                 content |-> <<[type |-> "text", text |-> "Unknown tool: " \o t.name]>>]
           /\ t.name = "foo" => t.outcome.content[1].text = "Unknown tool: foo"
           /\ t.sent = <<>>
           /\ t.transport = NoTransport
           /\ t.request = NoValue

C2_Witness ==
    \E i \in Tasks :
        /\ task[i].pc = "done"
        /\ task[i].name = "foo"
        /\ DOMAIN task[i].arguments = {"symbol_id", "symbol", "id"}
        /\ task[i].outcome.kind = "returned"
        /\ created = 0

\* C3: the request of a query_symbols invocation carries, of the four optional
\* fields, exactly those that the arguments give with a value other than
\* None, each with the value given; a field left out or None is no key of the
\* query parameters.
C3_OnlyPresentParameters ==
    \A i \in Tasks :
        LET t == task[i] IN
        (t.pc # "idle" /\ t.name = "query_symbols")
        => /\ Len(t.sent) = 1
           /\ "params" \in DOMAIN t.sent[1].kwargs
           /\ LET params == t.sent[1].kwargs["params"] IN
              /\ DOMAIN params \subseteq
                    {"symbol_domain", "symbol_tag", "last_symbol_id", "limit"}
              /\ \A f \in {"symbol_domain", "symbol_tag", "last_symbol_id", "limit"} :
                    IF f \in DOMAIN t.arguments /\ t.arguments[f] # [t |-> "null"]
                    THEN f \in DOMAIN params /\ params[f] = t.arguments[f]
                    ELSE f \notin DOMAIN params

C3_Witness ==
    \E i \in Tasks :
        /\ task[i].pc = "awaiting"
        /\ task[i].name = "query_symbols"
        /\ DOMAIN task[i].arguments = {"symbol_tag", "last_symbol_id", "limit"}
        /\ task[i].arguments["symbol_tag"] = JNull
        /\ task[i].arguments["limit"] = JInt(0)
        /\ task[i].sent[1].url =
              "https://qnw96whs57.execute-api.us-west-2.amazonaws.com/prod/symbol?last_symbol_id=s1&limit=0"

\* C4: a query_symbols invocation whose remote call gave a JSON value returns
\* "No symbols returned:" when the value is falsy ([], {}, null, 0, false, "")
\* and "Query results:" otherwise, then a newline and the value's pretty JSON.
C4_QueryPrefix ==
    \A i \in Tasks :
        LET t == task[i] IN
        (t.pc = "done" /\ t.name = "query_symbols" /\ t.response.kind = "http"
            /\ t.response.status \in 200 .. 299
            /\ t.response.text \in DOMAIN ExpectedPretty)
        => t.outcome =
              [kind |-> "returned",
               content |-> <<[type |-> "text",
                              text |-> (IF t.response.text \in FalsyBodies
                                        THEN "No symbols returned:"
                                        ELSE "Query results:")
                                       \o "\n" \o ExpectedPretty[t.response.text]]>>]

C4_Witness ==
    \E i \in Tasks :
        /\ task[i].pc = "done"
        /\ task[i].name = "query_symbols"
        /\ task[i].response.kind = "http"
        /\ task[i].response.text = "0"
        /\ task[i].outcome.kind = "returned"
        /\ task[i].outcome.content[1].text = "No symbols returned:\n0"

\* C5: a successful get_symbol_by_id returns the pretty JSON of the payload and
\* nothing before it; put_symbol_by_id returns "Stored symbol <symbol_id>:",
\* a newline and the pretty JSON; list_domains returns "Available domains:",
\* a newline and the pretty JSON.
C5_PayloadPassedThrough ==
    \A i \in Tasks :
        LET t == task[i] IN
        (t.pc = "done" /\ t.response.kind = "http"
            /\ t.response.status \in 200 .. 299
            /\ t.response.text \in DOMAIN ExpectedPretty)
        => LET pretty == ExpectedPretty[t.response.text]
               text == t.outcome.content[1].text
           IN /\ t.outcome.kind = "returned"
              /\ Len(t.outcome.content) = 1
              /\ t.name = "get_symbol_by_id" => text = pretty
              /\ t.name = "put_symbol_by_id"
                    => text = "Stored symbol " \o t.arguments["symbol_id"].s
                              \o ":\n" \o pretty
              /\ t.name = "list_domains" => text = "Available domains:\n" \o pretty

C5_Witness ==
    \E i \in Tasks :
        /\ task[i].pc = "done"
        /\ task[i].name = "put_symbol_by_id"
        /\ "symbol_id" \in DOMAIN task[i].arguments
        /\ task[i].arguments["symbol_id"] = JStr("s2")
        /\ task[i].response.kind = "http"
        /\ task[i].outcome.kind = "returned"
        /\ task[i].outcome.content[1].text =
              "Stored symbol s2:\n{\n  \"status\": \"stored\",\n  \"note\": \"say \\\"hi\\\"\"\n}"

\* C6 as stated: whenever the four required paths exist in the spec, each with
\* its operation, list_tools returns the four tools, in order, whatever else
\* the spec holds or lacks.
C6_FourToolsWheneverPathsExist ==
    (catalog # NoCatalog
        /\ "paths" \in DOMAIN spec_cache
        /\ {"/symbol", "/symbol/{id}", "/save_symbol/{symbol_id}", "/domains"}
              \subseteq DOMAIN spec_cache["paths"]
        /\ "get" \in DOMAIN spec_cache["paths"]["/symbol"]
        /\ "get" \in DOMAIN spec_cache["paths"]["/symbol/{id}"]
        /\ "put" \in DOMAIN spec_cache["paths"]["/save_symbol/{symbol_id}"]
        /\ "get" \in DOMAIN spec_cache["paths"]["/domains"])
    => /\ catalog.kind = "returned"
       /\ [k \in 1 .. Len(catalog.tools) |-> catalog.tools[k].name]
             = <<"query_symbols", "get_symbol_by_id", "put_symbol_by_id", "list_domains">>

\* C6, amended: whenever the spec holds the four required operations (get of
\* /symbol, get of /symbol/{id}, put of /save_symbol/{symbol_id}, get of
\* /domains) and components.schemas.Symbol, list_tools returns exactly the
\* four tools query_symbols, get_symbol_by_id, put_symbol_by_id, list_domains
\* in this order, whatever the summaries and other keys; each description is
\* the operation's summary, or its fixed default when the summary is missing.
C6_FourToolsWhenOperationsAndSchemaExist ==
    LET get == "get"
        put == "put"
        wanted == <<[path |-> "/symbol", method |-> get, name |-> "query_symbols",
                     default |-> "Query symbols"],
                    [path |-> "/symbol/{id}", method |-> get, name |-> "get_symbol_by_id",
                     default |-> "Get symbol by ID"],
                    [path |-> "/save_symbol/{symbol_id}", method |-> put,
                     name |-> "put_symbol_by_id", default |-> "Save symbol"],
                    [path |-> "/domains", method |-> get, name |-> "list_domains",
                     default |-> "List symbol domains"]>>
    IN (catalog # NoCatalog
           /\ "paths" \in DOMAIN spec_cache
           /\ \A k \in 1 .. 4 :
                 /\ wanted[k].path \in DOMAIN spec_cache["paths"]
                 /\ wanted[k].method \in DOMAIN spec_cache["paths"][wanted[k].path]
           /\ "components" \in DOMAIN spec_cache
           /\ "schemas" \in DOMAIN spec_cache["components"]
           /\ "Symbol" \in DOMAIN spec_cache["components"]["schemas"])
       => /\ catalog.kind = "returned"
          /\ Len(catalog.tools) = 4
          /\ \A k \in 1 .. 4 :
                LET operation == spec_cache["paths"][wanted[k].path][wanted[k].method]
                IN /\ catalog.tools[k].name = wanted[k].name
                   /\ catalog.tools[k].description =
                         IF "summary" \in DOMAIN operation THEN operation["summary"]
                         ELSE [t |-> "str", s |-> wanted[k].default]
          /\ catalog.tools[3].inputSchema.properties.symbol
                = spec_cache["components"]["schemas"]["Symbol"]

C6_Witness ==
    /\ catalog # NoCatalog
    /\ catalog.kind = "returned"
    /\ "openapi" \in DOMAIN spec_cache
    /\ "/health" \in DOMAIN spec_cache["paths"]
    /\ catalog.tools[1].description = JStr("Query symbols")
    /\ catalog.tools[2].description = JStr("About /symbol/{id}")
    /\ catalog.tools[3].description = JStr("Save symbol")
    /\ catalog.tools[4].description = JStr("About /domains")

\* C7: for every tool name, arguments holding the tool's required arguments
\* and every HTTP response, 2xx or not, call_tool returns a list of exactly
\* one text item and raises nothing.
C7_EveryResponseBecomesOneText ==
    \A i \in Tasks :
        LET t == task[i] IN
        (t.pc = "done"
            /\ (t.name = "get_symbol_by_id" => "id" \in DOMAIN t.arguments)
            /\ (t.name = "put_symbol_by_id"
                  => {"symbol_id", "symbol"} \subseteq DOMAIN t.arguments)
            /\ t.response.kind # "neterr")
        => /\ t.outcome.kind = "returned"
           /\ Len(t.outcome.content) = 1
           /\ t.outcome.content[1].type = "text"

\* C8: get_symbol_by_id without id, and put_symbol_by_id without symbol_id or
\* without symbol, end with the KeyError raised out of call_tool: no text is
\* returned, and no transport was made nor request sent.  A network failure
\* of the round trip is raised out of call_tool as it is.
C8_MissingArgumentAndNetworkErrorPropagate ==
    \A i \in Tasks :
        LET t == task[i] IN
        /\ (t.pc # "idle"
              /\ \/ t.name = "get_symbol_by_id" /\ "id" \notin DOMAIN t.arguments
                 \/ t.name = "put_symbol_by_id"
                       /\ ~({"symbol_id", "symbol"} \subseteq DOMAIN t.arguments))
           => /\ t.pc = "done"
              /\ t.outcome = [kind |-> "raised", exc |-> "KeyError"]
              /\ t.sent = <<>>
              /\ t.transport = NoTransport
        /\ (t.pc = "done" /\ t.response.kind = "neterr")
           => t.outcome = [kind |-> "raised", exc |-> t.response.exc]

C8_Witness ==
    \E i \in Tasks :
        /\ task[i].pc = "done"
        /\ task[i].name = "put_symbol_by_id"
        /\ DOMAIN task[i].arguments = {"symbol_id"}
        /\ task[i].outcome = Raised("KeyError")
        /\ created = 1
        /\ calls = 2

\* C9: a transport is open exactly while its call's round trip is under way:
\* it is made for that call alone, differs from every other call's and from
\* every closed one, and is closed before raise_for_status runs, whatever the
\* response or the failure; when no call is under way no transport is open.
C9_TransportPerCall ==
    /\ open = {task[i].transport :
                 i \in {j \in Tasks : task[j].pc \in {"awaiting", "received"}}}
    /\ open \cap closed = {}
    /\ NoTransport \notin open
    /\ \A i \in Tasks :
          /\ task[i].pc \in {"awaiting", "received"} => task[i].transport \notin closed
          /\ (task[i].pc \in {"released", "done"} /\ task[i].sent # <<>>)
                => task[i].transport \in closed \ open
          /\ \A j \in Tasks \ {i} :
                task[i].transport # NoTransport => task[i].transport # task[j].transport
    /\ Cardinality(open \cup closed) = created
    /\ (\A i \in Tasks : task[i].pc \in {"idle", "done"}) => open = {}

C9_Witness ==
    \E i \in Tasks, j \in Tasks :
        /\ i # j
        /\ task[i].pc = "released"
        /\ task[i].response = HttpResponse(404, "not found")
        /\ task[j].pc = "received"
        /\ task[j].response = NetworkError("ReadTimeout")
        /\ open = {task[j].transport}
        /\ closed = {task[i].transport}

\* C10: an invocation sends at most one request, also after a non-2xx answer
\* or a timeout: query_symbols one GET /symbol, get_symbol_by_id one
\* GET /symbol/{id}, put_symbol_by_id one PUT /save_symbol/{symbol_id} with the
\* given symbol as JSON body, list_domains one GET /domains without
\* parameters; which request it is depends on the invocation's name and
\* arguments alone.
C10_OneRequestPerInvocation ==
    /\ created <= calls
    /\ \A i \in Tasks :
          LET t == task[i]
              base == IF environ = EmptyDict
                      THEN "https://qnw96whs57.execute-api.us-west-2.amazonaws.com/prod"
                      ELSE "http://example.com"
          IN
          /\ Len(t.sent) <= 1
          /\ \A k \in 1 .. Len(t.sent) : t.sent[k].headers["Accept"] = "application/json"
          /\ (t.pc # "idle" /\ t.name = "query_symbols")
                => /\ Len(t.sent) = 1
                   /\ t.sent[1].method = "GET"
                   /\ t.sent[1].path = "/symbol"
                   /\ DOMAIN t.sent[1].kwargs = {"params"}
          /\ (t.pc # "idle" /\ t.name = "get_symbol_by_id")
                => IF "id" \in DOMAIN t.arguments
                   THEN /\ Len(t.sent) = 1
                        /\ t.sent[1].method = "GET"
                        /\ t.sent[1].path = "/symbol/" \o t.arguments["id"].s
                        /\ t.sent[1].url = base \o "/symbol/" \o t.arguments["id"].s
                        /\ t.sent[1].kwargs = EmptyDict
                   ELSE t.sent = <<>>
          /\ (t.pc # "idle" /\ t.name = "put_symbol_by_id")
                => IF {"symbol_id", "symbol"} \subseteq DOMAIN t.arguments
                   THEN /\ Len(t.sent) = 1
                        /\ t.sent[1].method = "PUT"
                        /\ t.sent[1].path = "/save_symbol/" \o t.arguments["symbol_id"].s
                        /\ t.sent[1].url
                              = base \o "/save_symbol/" \o t.arguments["symbol_id"].s
                        /\ t.sent[1].kwargs = [json |-> t.arguments["symbol"]]
                   ELSE t.sent = <<>>
          /\ (t.pc # "idle" /\ t.name = "list_domains")
                => /\ Len(t.sent) = 1
                   /\ t.sent[1].method = "GET"
                   /\ t.sent[1].path = "/domains"
                   /\ t.sent[1].url = base \o "/domains"
                   /\ t.sent[1].kwargs = EmptyDict
          /\ (t.pc # "idle"
                /\ t.name \notin {"query_symbols", "get_symbol_by_id",
                                  "put_symbol_by_id", "list_domains"})
                => t.sent = <<>>

C10_Witness ==
    \E i \in Tasks :
        /\ calls = 2
        /\ created = 2
        /\ task[i].pc = "done"
        /\ task[i].name = "put_symbol_by_id"
        /\ task[i].response = NetworkError("ReadTimeout")
        /\ Len(task[i].sent) = 1
        /\ task[i].sent[1].method = "PUT"
        /\ task[i].sent[1].transport = 2

====
